---- MODULE Spec2Model ----
(***************************************************************************)
(* Shopify -> Slack status updater (src/app.py).                           *)
(*                                                                         *)
(* The webhook handler shopify_webhook resolves the Slack thread of an     *)
(* order (the in-memory dict order_threads, or a search of the channel     *)
(* history), compares the payload's payment and fulfillment status with    *)
(* the last value recorded for the order, posts a thread reply for each    *)
(* changed status and records the value after a successful post.           *)
(*                                                                         *)
(* Texts and order numbers are sequences of tokens: one-character strings  *)
(* for digits, "#", " " and "|", "w" for a letter, and "ST.order" for the  *)
(* literal the first pattern of extract_order_number_from_text looks for.  *)
(* Python's None and the empty string are both falsy wherever the code     *)
(* tests them, and are modelled by <<>> (texts, order numbers), NoStatus   *)
(* (status values), 0 (timestamps and object references).                  *)
(***************************************************************************)
EXTENDS Integers, Sequences, FiniteSets, TLC

(***************************************************************************)
(* Bounds of the model.                                                    *)
(***************************************************************************)
\* webhook events delivered in one behaviour
MaxEvents == 2
\* messages people post to the channel in one behaviour
MaxMsgs == 2
\* page size of conversations.history ("limit": 100 at app.py:58), scaled
\* down with the channel
HistoryLimit == 2

\* handler threads serving requests at the same time
Procs == {1, 2}

(***************************************************************************)
(* Values.                                                                 *)
(***************************************************************************)
NoStatus == "<None>"

Digits == {"0", "1", "2", "3", "4", "5", "6", "7", "8", "9"}

IsDigit(c) == c \in Digits

IsSpace(c) == c = " "

\* \w of the regular expressions: letters and digits ("ST.order" begins and
\* ends with a letter)
IsWord(c) == c \in Digits \cup {"w", "ST.order", "fulfilled"}

SHOPIFY_SLACK_CHANNEL_ID == "C0A068PHZMY"

(***************************************************************************)
(* extract_order_number_from_text                                          *)
(***************************************************************************)
\* the first position >= i of text that holds no whitespace
RECURSIVE SkipSpaces(_, _)
SkipSpaces(text, i) ==
    IF i <= Len(text) /\ IsSpace(text[i]) THEN SkipSpaces(text, i + 1) ELSE i

\* the longest run of digits of text that starts at position i: (\d+)
RECURSIVE DigitRun(_, _)
DigitRun(text, i) ==
    IF i <= Len(text) /\ IsDigit(text[i])
    THEN <<text[i]>> \o DigitRun(text, i + 1)
    ELSE <<>>

\* group(1) of ST\.order\s*#?(\d+) matched at position i (the literal in
\* any case: re.IGNORECASE), <<>> if there is no match at i
Pattern1At(text, i) ==
    IF text[i] # "ST.order" THEN <<>>
    ELSE LET j == SkipSpaces(text, i + 1)
         IN  IF j <= Len(text) /\ text[j] = "#"
             THEN DigitRun(text, j + 1)
             ELSE DigitRun(text, j)

\* group(1) of #(\d+) matched at position i
Pattern2At(text, i) ==
    IF text[i] # "#" THEN <<>> ELSE DigitRun(text, i + 1)

\* group(1) of \b(\d{4,})\b matched at position i
Pattern3At(text, i) ==
    LET run == DigitRun(text, i)
        j   == i + Len(run)
    IN  IF /\ Len(run) >= 4
           /\ (i = 1 \/ ~IsWord(text[i - 1]))
           /\ (j > Len(text) \/ ~IsWord(text[j]))
        THEN run
        ELSE <<>>

\* the three patterns of lines 29, 34 and 39
PatternAt(pattern, text, i) ==
    CASE pattern = 1 -> Pattern1At(text, i)
      [] pattern = 2 -> Pattern2At(text, i)
      [] pattern = 3 -> Pattern3At(text, i)

\* re.search: the match at the leftmost position >= i that has one
RECURSIVE Search(_, _, _)
Search(pattern, text, i) ==
    IF i > Len(text) THEN <<>>
    ELSE IF PatternAt(pattern, text, i) # <<>> THEN PatternAt(pattern, text, i)
    ELSE Search(pattern, text, i + 1)

extract_order_number_from_text(text) ==
    IF text = <<>> THEN <<>>
    ELSE IF Search(1, text, 1) # <<>> THEN Search(1, text, 1)
    ELSE IF Search(2, text, 1) # <<>> THEN Search(2, text, 1)
    ELSE Search(3, text, 1)

(***************************************************************************)
(* str(order_number).replace("#", "").strip()                              *)
(***************************************************************************)
Replace(s) == SelectSeq(s, LAMBDA c : c # "#")

RECURSIVE LStrip(_)
LStrip(s) == IF s # <<>> /\ IsSpace(Head(s)) THEN LStrip(Tail(s)) ELSE s

RECURSIVE RStrip(_)
RStrip(s) ==
    IF s # <<>> /\ IsSpace(s[Len(s)]) THEN RStrip(SubSeq(s, 1, Len(s) - 1)) ELSE s

Strip(s) == RStrip(LStrip(s))

\* a cleaning that forgets to strip the whitespace
CleanNoStrip(order_number) == Replace(order_number)

clean_order_number(order_number) == Strip(Replace(order_number))

(***************************************************************************)
(* Inbound events: the X-Shopify-Topic header and the order payload.       *)
(***************************************************************************)
\* values of the payload's 'name' field: order 12 as Shopify and other
\* senders write it; <<>> is a payload without the field
Names ==
    {<<"1", "2">>, <<"#", "1", "2">>, <<" ", "1", "2", " ">>, <<>>}

\* values of the payload's 'order_number' and 'id' fields (numbers, which
\* line 234 turns into strings); <<>> is a payload without the field
OrderNumbers == {<<"1", "2", "3">>, <<>>}

Ids == {<<"9">>, <<>>}

Topics == {"orders/updated", "fulfillments/create", "orders/create"}

FinancialStatuses == {"", "paid", "pending"}

FulfillmentStatuses == {"", "fulfilled"}

PayloadsNamed(names) ==
    [name : names, order_number : {<<>>}, id : {<<>>},
     financial_status : FinancialStatuses,
     fulfillment_status : FulfillmentStatuses]

\* every way of writing the order, paid or without a payment status
Payloads == {o \in PayloadsNamed(Names) : o.financial_status # "pending"}

\* the order as Shopify writes it
ShopifyPayloads == PayloadsNamed({<<"#", "1", "2">>, <<>>})

\* order #12 or order #123 is paid
LocPayloads ==
    [name : {<<"#", "1", "2">>, <<"#", "1", "2", "3">>},
     order_number : {<<>>}, id : {<<>>},
     financial_status : {"paid"}, fulfillment_status : {""}]

\* payloads with and without each of the three fields that identify the order
IdPayloads ==
    [name : {<<"#", "1", "2">>, <<>>}, order_number : OrderNumbers, id : Ids,
     financial_status : {"paid"}, fulfillment_status : {""}]

\* the request carried no payload yet
NoPayload ==
    [name |-> <<>>, order_number |-> <<>>, id |-> <<>>,
     financial_status |-> "", fulfillment_status |-> ""]

UpdateTopics == {"orders/updated"}

\* an extraction that falls back on a default when no field is there
OrderNumberOrDefault(order_data) ==
    IF order_data.name # <<>> THEN order_data.name
    ELSE IF order_data.order_number # <<>> THEN order_data.order_number
    ELSE IF order_data.id # <<>> THEN order_data.id
    ELSE <<"9">>

\* lines 211-227: 'name', then 'order_number', then 'id'
OrderNumberOf(order_data) ==
    IF order_data.name # <<>> THEN order_data.name
    ELSE IF order_data.order_number # <<>> THEN order_data.order_number
    ELSE order_data.id

\* str.lower() on the status values of the model
Lower(s) ==
    CASE s = "PAID" -> "paid"
      [] s = "Pending" -> "pending"
      [] s = "Fulfilled" -> "fulfilled"
      [] OTHER -> s

status_mapping ==
    [s \in {"pending", "partially_fulfilled", "authorized", "paid", "refunded",
            "voided", "fulfilled", "unfulfilled"} |->
        CASE s = "pending" -> "payment pending"
          [] s = "partially_fulfilled" -> "partially fulfilled"
          [] OTHER -> s]

\* lines 256-257: status_mapping.get(status.lower(), status) if status else None
Normalize(status) ==
    IF status = "" THEN NoStatus
    ELSE IF Lower(status) \in DOMAIN status_mapping
         THEN status_mapping[Lower(status)]
         ELSE status

(***************************************************************************)
(* The channel.  A message is [ts, text, thread_ts]; thread_ts = 0 for a   *)
(* message that is not in a thread.                                        *)
(***************************************************************************)
Texts ==
    {<<"ST.order", " ", "#", "1", "2", " ", "|", " ", "w">>,
     <<"ST.order", " ", "#", "1", "2", "3">>}

\* texts around order 12: its announcement, announcements of orders whose
\* number begins with, ends with or begins 12, a text that writes "#12"
\* without the literal, a status text about the order, a long number
LocTexts ==
    {<<"ST.order", " ", "#", "1", "2", " ", "|", " ", "w">>,
     <<"ST.order", " ", "#", "1", "2", "3">>,
     <<"ST.order", " ", "#", "1">>,
     <<"ST.order", " ", "#", "2", "1", "2">>,
     <<"w", " ", "#", "1", "2">>,
     <<"w", " ", "#", "1", "2", " ", "fulfilled">>,
     <<"w", " ", "1", "2", "1", "2">>}

\* the channels of at most MaxMsgs such messages, each outside a thread or
\* with the thread_ts of the first message (its own ts for the first: a
\* root with replies; a reply for the others)
LocChannels ==
    UNION {{[i \in 1..n |-> [ts |-> i, text |-> c[i][1], thread_ts |-> c[i][2]]] :
               c \in [1..n -> LocTexts \X {0, 1}]} : n \in 0..MaxMsgs}

\* a comparison that accepts a text whose number begins with the order number
MatchesPrefix(msg, clean_order_num) ==
    LET extracted_num == extract_order_number_from_text(msg.text)
    IN  /\ extracted_num # <<>>
        /\ Len(extracted_num) >= Len(clean_order_num)
        /\ SubSeq(extracted_num, 1, Len(clean_order_num)) = clean_order_num

\* conversations.history: the newest `limit` messages, newest first
History(chan, limit) ==
    LET n == IF Len(chan) < limit THEN Len(chan) ELSE limit
    IN  [i \in 1..n |-> chan[Len(chan) + 1 - i]]

\* a message that is never taken for a reply
NeverThreadReply(msg) == FALSE

\* lines 80-81: a reply in a thread is skipped
IsThreadReply(msg) == msg.thread_ts # 0 /\ msg.thread_ts # msg.ts

\* lines 84-86
Matches(msg, clean_order_num) ==
    LET extracted_num == extract_order_number_from_text(msg.text)
    IN  extracted_num # <<>> /\ extracted_num = clean_order_num

\* a scan that takes the newest message that is no reply, whatever its text
ScanAnyRoot(messages, clean_order_num, i) ==
    IF \E j \in 1..Len(messages) : ~IsThreadReply(messages[j])
    THEN messages[CHOOSE j \in 1..Len(messages) :
                      /\ ~IsThreadReply(messages[j])
                      /\ \A h \in 1..(j - 1) : IsThreadReply(messages[h])].ts
    ELSE 0

\* lines 76-92: the loop over the fetched messages, from index i on
RECURSIVE ScanMessages(_, _, _)
ScanMessages(messages, clean_order_num, i) ==
    IF i > Len(messages) THEN 0
    ELSE IF ~IsThreadReply(messages[i]) /\ Matches(messages[i], clean_order_num)
         THEN messages[i].ts
         ELSE ScanMessages(messages, clean_order_num, i + 1)

\* a search that scans the messages whatever the outcome of the request
FindIgnoringFailure(order_number, hasToken, ok, chan) ==
    ScanMessages(History(chan, HistoryLimit), clean_order_number(order_number), 1)

\* find_order_message_in_channel: the ts found, 0 for None.  `ok` is the
\* outcome of the history request (an HTTP error, a timeout or a response
\* that is not ok all return None)
find_order_message_in_channel(order_number, hasToken, ok, chan) ==
    IF ~hasToken \/ ~ok THEN 0
    ELSE ScanMessages(History(chan, HistoryLimit),
                      clean_order_number(order_number), 1)

(***************************************************************************)
(* State.                                                                  *)
(***************************************************************************)
VARIABLES
    token,          \* whether SLACK_BOT_TOKEN is set
    order_threads,  \* the dict order_threads: key -> reference of a mapping dict
    objects,        \* the mapping dicts, by reference
    channel,        \* the messages of the channel, oldest first
    frame,          \* the locals of each handler thread and its position
    replies,        \* the replies Slack accepted: [order, domain, status,
                    \* thread_ts]
    run,            \* per key and domain: the status the last events carried,
                    \* the sends attempted and the replies posted for it
                    \* since, and the status of the last reply Slack accepted
    responses,      \* the responses returned so far: [order_number, code]
    nEvents         \* events delivered so far

vars ==
    <<token, order_threads, objects, channel, frame, replies, run, responses,
      nEvents>>

Domains == {"payment", "fulfillment"}

\* the keys order_threads can get: the cleaned order numbers, and the order
\* numbers
StoreKeys ==
    LET numbers == Names \cup OrderNumbers \cup Ids
    IN  (numbers \cup {clean_order_number(n) : n \in numbers}) \ {<<>>}

\* references of mapping dicts; 0 is None
NumObjs == Cardinality(StoreKeys) + Cardinality(Procs)

ObjIds == 1..NumObjs

\* a reference no dict is allocated at
NoObject ==
    [ts |-> 0, channel |-> "", last_payment |-> NoStatus,
     last_fulfillment |-> NoStatus]

IdleFrame ==
    [pc |-> "idle", webhook_topic |-> "", order_data |-> NoPayload,
     order_number |-> <<>>,
     clean_order_number |-> <<>>, payment_status |-> NoStatus,
     fulfillment_status_mapped |-> NoStatus, mapping |-> 0, data_ok |-> FALSE,
     thread_ts |-> 0, updates_posted |-> FALSE, response |-> 0, sent |-> {}]

NoRun == [status |-> NoStatus, attempts |-> 0, posted |-> 0, last |-> NoStatus]

Init ==
    /\ token \in BOOLEAN
    /\ order_threads = [k \in StoreKeys |-> 0]
    /\ objects = [o \in ObjIds |-> NoObject]
    /\ channel = <<>>
    /\ frame = [p \in Procs |-> IdleFrame]
    /\ replies = {}
    /\ run = [k \in StoreKeys |-> [d \in Domains |-> NoRun]]
    /\ responses = {}
    /\ nEvents = 0

(***************************************************************************)
(* The mapping dicts.  A dict lives as long as order_threads or a handler  *)
(* refers to it; save_order_mapping builds a new dict on every call.       *)
(***************************************************************************)
Live(threads, frames) ==
    ({threads[k] : k \in StoreKeys} \cup {frames[p].mapping : p \in Procs}) \ {0}

\* the dicts no reference reaches are dropped
Collect(objs, threads, frames) ==
    [o \in ObjIds |-> IF o \in Live(threads, frames) THEN objs[o] ELSE NoObject]

NewRef == CHOOSE o \in ObjIds \ Live(order_threads, frame) :
              \A q \in ObjIds \ Live(order_threads, frame) : o <= q

\* save_order_mapping: the dict stored under str(order_number)
SavedMapping(thread_ts, last_payment, last_fulfillment) ==
    [ts |-> thread_ts, channel |-> SHOPIFY_SLACK_CHANNEL_ID,
     last_payment |-> last_payment, last_fulfillment |-> last_fulfillment]

\* get_order_mapping
get_order_mapping(order_number) == order_threads[order_number]

(***************************************************************************)
(* shopify_webhook, one action per step between two accesses of shared     *)
(* state or remote calls.                                                  *)
(***************************************************************************)
AllIdle == \A q \in Procs : frame[q].pc = "idle"

\* the status of the event for a domain, as normalized at lines 256-257
StatusOf(f, d) ==
    IF d = "payment" THEN f.payment_status ELSE f.fulfillment_status_mapped

\* the field of the mapping dict that holds a domain's last value
FieldOf(d) == IF d = "payment" THEN "last_payment" ELSE "last_fulfillment"

\* the position of a handler inside the block of a domain
Pc(stage, d) ==
    IF d = "payment"
    THEN CASE stage = "check" -> "pay_check" [] stage = "post" -> "pay_post"
           [] stage = "set" -> "pay_set" [] stage = "save" -> "pay_save"
    ELSE CASE stage = "check" -> "ful_check" [] stage = "post" -> "ful_post"
           [] stage = "set" -> "ful_set" [] stage = "save" -> "ful_save"

\* a handler that answers as soon as one domain is done
AfterDomainAbort(f, d) == [f EXCEPT !.pc = "ret", !.response = 200]

\* what follows the handling of a domain: the fulfillment block after the
\* payment block, the response after the fulfillment block (lines 349-360)
AfterDomain(f, d) ==
    IF d = "payment"
    THEN [f EXCEPT !.pc = Pc("check", "fulfillment")]
    ELSE [f EXCEPT !.pc = "ret", !.response = 200]

\* the run of events carrying one status for (key, domain): an event with
\* another status starts a new run
RunAfterEvent(r, status) ==
    IF r.status = status THEN r
    ELSE [NoRun EXCEPT !.status = status, !.last = r.last]

\* lines 194-259 and 262: the topic, the payload, the order number and the
\* statuses.  400 when there is no order number
Receive(p, topics, payloads) ==
    /\ frame[p].pc = "idle"
    /\ nEvents < MaxEvents
    /\ \E topic \in topics, order_data \in payloads :
          LET order_number == OrderNumberOf(order_data)
              clean == clean_order_number(order_number)
              payment_status == Normalize(order_data.financial_status)
              fulfillment_status_mapped == Normalize(order_data.fulfillment_status)
          IN  IF order_number = <<>>
              THEN /\ frame' = [frame EXCEPT ![p] =
                          [IdleFrame EXCEPT !.pc = "ret", !.webhook_topic = topic,
                                            !.order_data = order_data,
                                            !.response = 400]]
                   /\ run' = run
              ELSE /\ frame' = [frame EXCEPT ![p] =
                          [IdleFrame EXCEPT
                              !.pc = "lookup",
                              !.webhook_topic = topic,
                              !.order_data = order_data,
                              !.order_number = order_number,
                              !.clean_order_number = clean,
                              !.payment_status = payment_status,
                              !.fulfillment_status_mapped = fulfillment_status_mapped]]
                   /\ run' = [run EXCEPT ![clean] =
                          [d \in Domains |->
                              RunAfterEvent(run[clean][d],
                                  IF d = "payment" THEN payment_status
                                  ELSE fulfillment_status_mapped)]]
    /\ nEvents' = nEvents + 1
    /\ UNCHANGED <<token, order_threads, objects, channel, replies, responses>>

\* line 262: mapping = get_order_mapping(clean_order_number)
Lookup(p) ==
    /\ frame[p].pc = "lookup"
    /\ LET mapping == get_order_mapping(frame[p].clean_order_number)
       IN  frame' = [frame EXCEPT ![p] =
               [@ EXCEPT !.mapping = mapping,
                         !.pc = IF mapping # 0 THEN Pc("check", "payment")
                                ELSE "locate"]]
    /\ UNCHANGED <<token, order_threads, objects, channel, replies, run, responses, nEvents>>

\* lines 264-279: the search of the channel; 202 when nothing is found
Locate(p) ==
    /\ frame[p].pc = "locate"
    /\ \E ok \in BOOLEAN :
          LET thread_ts == find_order_message_in_channel(
                               frame[p].clean_order_number, token, ok, channel)
          IN  frame' = [frame EXCEPT ![p] =
                  IF thread_ts # 0
                  THEN [@ EXCEPT !.data_ok = token /\ ok,
                                 !.thread_ts = thread_ts, !.pc = "save_new"]
                  ELSE [@ EXCEPT !.data_ok = token /\ ok,
                                 !.pc = "ret", !.response = 202]]
    /\ UNCHANGED <<token, order_threads, objects, channel, replies, run, responses, nEvents>>

\* line 271: save_order_mapping(clean_order_number, thread_ts).  data_ok is
\* data.get("ok") of the history request, a local of the call that returned
SaveNew(p) ==
    /\ frame[p].pc = "save_new"
    /\ frame' = [frame EXCEPT ![p] = [@ EXCEPT !.data_ok = FALSE, !.pc = "get_new"]]
    /\ order_threads' =
          [order_threads EXCEPT ![frame[p].clean_order_number] = NewRef]
    /\ objects' = Collect(
          [objects EXCEPT ![NewRef] =
              SavedMapping(frame[p].thread_ts, NoStatus, NoStatus)],
          order_threads', frame')
    /\ UNCHANGED <<token, channel, replies, run, responses, nEvents>>

\* line 272: mapping = get_order_mapping(clean_order_number)
GetNew(p) ==
    /\ frame[p].pc = "get_new"
    /\ frame' = [frame EXCEPT ![p] =
          [@ EXCEPT !.mapping = get_order_mapping(frame[p].clean_order_number),
                    !.pc = Pc("check", "payment")]]
    /\ objects' = Collect(objects, order_threads, frame')
    /\ UNCHANGED <<token, order_threads, channel, replies, run, responses, nEvents>>

\* a comparison that posts whatever the last value is
ShouldPostAlways(status, current) == status # NoStatus /\ status # "unknown"

\* lines 285-288 and 312-315: the status is there and differs from the last
ShouldPost(status, current) ==
    status # NoStatus /\ status # "unknown" /\ status # current

\* lines 284-288, 311-315
Check(p, d) ==
    /\ frame[p].pc = Pc("check", d)
    /\ LET current == objects[frame[p].mapping][FieldOf(d)]
       IN  frame' = [frame EXCEPT ![p] =
               IF ShouldPost(StatusOf(frame[p], d), current)
               THEN [@ EXCEPT !.pc = Pc("post", d)]
               ELSE AfterDomain(@, d)]
    /\ UNCHANGED <<token, order_threads, objects, channel, replies, run, responses, nEvents>>

\* a post_thread_reply that reports success whatever Slack answered
PostReportsSuccess(hasToken, ok) == TRUE

\* post_thread_reply: True when the token is set and Slack answered ok
post_thread_reply(hasToken, ok) == hasToken /\ ok

\* lines 300, 338: the reply is posted when Slack accepts the request
Post(p, d) ==
    /\ frame[p].pc = Pc("post", d)
    /\ \E ok \in BOOLEAN :
          LET f == frame[p]
              key == f.clean_order_number
              status == StatusOf(f, d)
              accepted == token /\ ok
              reply == [order |-> key, domain |-> d, status |-> status,
                        thread_ts |-> objects[f.mapping].ts]
          IN  /\ replies' = IF accepted THEN replies \cup {reply} ELSE replies
              /\ run' = [run EXCEPT ![key][d] =
                     [@ EXCEPT !.attempts = @ + 1,
                               !.posted = IF accepted THEN @ + 1 ELSE @,
                               !.last = IF accepted THEN status ELSE @]]
              /\ frame' = [frame EXCEPT ![p] =
                     IF post_thread_reply(token, ok)
                     THEN [@ EXCEPT !.pc = Pc("set", d),
                                    !.sent = IF accepted
                                             THEN @ \cup {<<d, status>>} ELSE @]
                     ELSE AfterDomain(@, d)]
    /\ UNCHANGED <<token, order_threads, objects, channel, responses, nEvents>>

\* lines 302, 340: mapping['last_...'] = status, on the dict the handler holds
Set(p, d) ==
    /\ frame[p].pc = Pc("set", d)
    /\ objects' = [objects EXCEPT
          ![frame[p].mapping][FieldOf(d)] = StatusOf(frame[p], d)]
    /\ frame' = [frame EXCEPT ![p].pc = Pc("save", d)]
    /\ UNCHANGED <<token, order_threads, channel, replies, run, responses, nEvents>>

\* a save of one domain that resets the other
SaveArgsOverwrite(m, d, status) ==
    IF d = "payment"
    THEN SavedMapping(m.ts, status, NoStatus)
    ELSE SavedMapping(m.ts, NoStatus, status)

\* lines 303-305, 341-343: the arguments of save_order_mapping, read from the
\* dict the handler holds
SaveArgs(m, d, status) ==
    IF d = "payment"
    THEN SavedMapping(m.ts, status, m.last_fulfillment)
    ELSE SavedMapping(m.ts, m.last_payment, status)

\* lines 303-306, 341-344
Save(p, d) ==
    /\ frame[p].pc = Pc("save", d)
    /\ frame' = [frame EXCEPT ![p] =
          AfterDomain([@ EXCEPT !.updates_posted = TRUE], d)]
    /\ order_threads' =
          [order_threads EXCEPT ![frame[p].clean_order_number] = NewRef]
    /\ objects' = Collect(
          [objects EXCEPT ![NewRef] =
              SaveArgs(objects[frame[p].mapping], d, StatusOf(frame[p], d))],
          order_threads', frame')
    /\ UNCHANGED <<token, channel, replies, run, responses, nEvents>>

\* the response is delivered and the handler's locals are gone
Return(p) ==
    /\ frame[p].pc = "ret"
    /\ frame' = [frame EXCEPT ![p] = IdleFrame]
    /\ objects' = Collect(objects, order_threads, frame')
    /\ responses' = responses \cup
          {[order_number |-> frame[p].order_number, code |-> frame[p].response]}
    /\ UNCHANGED <<token, order_threads, channel, replies, run, nEvents>>

(***************************************************************************)
(* The environment.                                                        *)
(***************************************************************************)
\* somebody posts a message to the channel
PostMessage ==
    /\ Len(channel) < MaxMsgs
    /\ \E text \in Texts :
          channel' = Append(channel,
              [ts |-> Len(channel) + 1, text |-> text, thread_ts |-> 0])
    /\ UNCHANGED <<token, order_threads, objects, frame, replies, run, responses, nEvents>>

\* line 18: the process starts again with order_threads = {}; the requests
\* it was serving are gone
Restart ==
    /\ (\E k \in StoreKeys : order_threads[k] # 0) \/ ~AllIdle
    /\ order_threads' = [k \in StoreKeys |-> 0]
    /\ objects' = [o \in ObjIds |-> NoObject]
    /\ frame' = [p \in Procs |-> IdleFrame]
    /\ run' = [k \in StoreKeys |-> [d \in Domains |-> NoRun]]
    /\ UNCHANGED <<token, channel, replies, responses, nEvents>>

Step(p) ==
    \/ Lookup(p)
    \/ Locate(p)
    \/ SaveNew(p)
    \/ GetNew(p)
    \/ \E d \in Domains : Check(p, d)
    \/ \E d \in Domains : Post(p, d)
    \/ \E d \in Domains : Set(p, d)
    \/ \E d \in Domains : Save(p, d)
    \/ Return(p)

\* handler threads run at the same time (Flask's development server is
\* threaded, and nothing in app.py takes a lock); the events are about one
\* order
Next ==
    \/ \E p \in Procs : Receive(p, UpdateTopics, ShopifyPayloads)
    \/ \E p \in Procs : Step(p)
    \/ PostMessage
    \/ Restart

Spec == Init /\ [][Next]_vars

\* events handled one after the other, by one thread
SeqNext ==
    \/ AllIdle /\ Receive(1, UpdateTopics, ShopifyPayloads)
    \/ \E p \in Procs : Step(p)
    \/ PostMessage
    \/ Restart

SeqSpec == Init /\ [][SeqNext]_vars

\* events that write the order number in every way, handled one after the
\* other
KeyNext ==
    \/ AllIdle /\ Receive(1, UpdateTopics, Payloads)
    \/ \E p \in Procs : Step(p)
    \/ PostMessage
    \/ Restart

KeySpec == Init /\ [][KeyNext]_vars

\* events of every topic, handled one after the other
TopicNext ==
    \/ AllIdle /\ Receive(1, Topics, ShopifyPayloads)
    \/ \E p \in Procs : Step(p)
    \/ PostMessage
    \/ Restart

TopicSpec == Init /\ [][TopicNext]_vars

\* events that identify the order by any of the three fields, or by none,
\* handled one after the other
IdNext ==
    \/ AllIdle /\ Receive(1, UpdateTopics, IdPayloads)
    \/ \E p \in Procs : Step(p)
    \/ PostMessage
    \/ Restart

IdSpec == Init /\ [][IdNext]_vars

\* the process starts with any messages in the channel
LocInit ==
    /\ token \in BOOLEAN
    /\ order_threads = [k \in StoreKeys |-> 0]
    /\ objects = [o \in ObjIds |-> NoObject]
    /\ channel \in LocChannels
    /\ frame = [p \in Procs |-> IdleFrame]
    /\ replies = {}
    /\ run = [k \in StoreKeys |-> [d \in Domains |-> NoRun]]
    /\ responses = {}
    /\ nEvents = 0

\* events for orders 12 and 123, handled one after the other, over such a
\* channel
LocNext ==
    \/ AllIdle /\ Receive(1, UpdateTopics, LocPayloads)
    \/ \E p \in Procs : Step(p)

LocSpec == LocInit /\ [][LocNext]_vars

(***************************************************************************)
(* Properties.                                                             *)
(***************************************************************************)
\* the mapping dict order_threads holds for a key; NoObject if there is none
MappingOf(k) == IF order_threads[k] = 0 THEN NoObject ELSE objects[order_threads[k]]

\* the last value recorded in the store for (key, domain)
LastValue(k, d) == MappingOf(k)[FieldOf(d)]

\* handler p has received an event and not yet delivered its response
Active(p) == frame[p].pc # "idle"

\* C1: over a sequence of events handled one after the other that all carry
\* the same status for the same (order, domain), at most one reply is posted
\* for it: once Slack has accepted the reply, the same event delivered again
\* posts nothing more.
C1_AtMostOneReplyPerStatus ==
    \A k \in StoreKeys, d \in Domains : run[k][d].posted <= 1

\* an identical event was delivered again after the reply was posted, and
\* its handler has finished without posting
C1_Witness ==
    \E p \in Procs, d \in Domains :
        LET f == frame[p] IN
        /\ f.pc = "ret" /\ f.response = 200
        /\ f.sent = {} /\ ~f.updates_posted
        /\ StatusOf(f, d) # NoStatus
        /\ run[f.clean_order_number][d] =
               [status |-> StatusOf(f, d), attempts |-> 1, posted |-> 1,
                last |-> StatusOf(f, d)]
        /\ \E r \in responses :
               clean_order_number(r.order_number) = f.clean_order_number /\ r.code = 200

\* C2: two events for the same order handled at the same time never both
\* post a reply for the same (order, domain, status).
C2_NoDuplicateReplyByConcurrentHandlers ==
    \A p, q \in Procs :
        (p # q /\ Active(p) /\ Active(q)
           /\ frame[p].clean_order_number = frame[q].clean_order_number)
        => frame[p].sent \cap frame[q].sent = {}

\* C3: a value recorded in the store as the last payment or fulfillment
\* status of an order is the status of a reply Slack accepted for that
\* order and domain: the store is never written before the send, nor
\* without a confirmed send.
C3_RecordedOnlyAfterConfirmedSend ==
    \A k \in StoreKeys, d \in Domains :
        LastValue(k, d) # NoStatus
        => \E r \in replies :
               r.order = k /\ r.domain = d /\ r.status = LastValue(k, d)

\* a value is recorded, and a send has failed before
C3_Witness ==
    \E k \in StoreKeys :
        /\ LastValue(k, "payment") # NoStatus
        /\ LastValue(k, "fulfillment") = NoStatus
        /\ run[k]["fulfillment"].attempts > 0

\* handler p is in the block of domain d, between the accepted post and the
\* end of the save
Recording(p, d) == frame[p].pc \in {Pc("set", d), Pc("save", d)}

\* C4: when the send of a reply fails, the store's last value for that
\* order and domain stays what it was, so that a later event with the same
\* status attempts the send again, and the value is recorded once a send
\* succeeds.
C4_FailedSendLeavesStoreAndIsRetried ==
    /\ [](\A k \in StoreKeys, d \in Domains :
            LET r == run[k][d] IN
            /\ (r.attempts > 0 /\ r.posted = 0) => LastValue(k, d) # r.status
            /\ (r.posted > 0 /\ \A p \in Procs : ~Recording(p, d))
                   => LastValue(k, d) = r.status)
    /\ [][\A p \in Procs, d \in Domains :
            LET f == frame[p]
                r == run[f.clean_order_number][d]
            IN  /\ \* a failed send changes nothing in the store
                   (f.pc = Pc("post", d) /\ Active(p)'
                        /\ frame'[p].pc \notin {f.pc, Pc("set", d)})
                       => (order_threads' = order_threads /\ objects' = objects)
                \* after failed sends, the next event of the run sends again
                /\ (f.pc = Pc("check", d) /\ Active(p)' /\ frame'[p].pc # f.pc
                        /\ r.attempts > 0 /\ r.posted = 0)
                       => frame'[p].pc = Pc("post", d)]_vars

\* a send failed, a later event with the same status sent again, and the
\* value is recorded
C4_Witness ==
    \E k \in StoreKeys, d \in Domains :
        /\ run[k][d].attempts = 2 /\ run[k][d].posted = 1
        /\ LastValue(k, d) = run[k][d].status
        /\ \A p \in Procs : ~Recording(p, d)

\* C5: an event that records one domain leaves the value recorded for the
\* other domain as it was: the recorded value of a domain changes only in
\* the steps that record that domain, which set it to the event's status.
C5_OtherDomainPreserved ==
    [][\A k \in StoreKeys, d \in Domains :
          (order_threads[k] # 0 /\ order_threads'[k] # 0)
          => /\ LastValue(k, d)' # LastValue(k, d)
                 => \E p \in Procs :
                        /\ frame[p].clean_order_number = k
                        /\ Recording(p, d)
                        /\ LastValue(k, d)' = StatusOf(frame[p], d)
             /\ \A p \in Procs :
                    (frame[p].clean_order_number = k
                       /\ frame[p].pc = Pc("save", d) /\ frame'[p].pc # frame[p].pc)
                    => LastValue(k, d)' = StatusOf(frame[p], d)]_vars

\* a payment status was recorded by an earlier event, and a later event has
\* recorded only a fulfillment status
C5_Witness ==
    \E p \in Procs :
        LET f == frame[p] IN
        /\ f.pc = "ret"
        /\ f.sent = {<<"fulfillment", "fulfilled">>}
        /\ LastValue(f.clean_order_number, "fulfillment") = "fulfilled"
        /\ LastValue(f.clean_order_number, "payment") = "paid"
        /\ f.payment_status = NoStatus

\* C6: once order_threads holds a mapping for a key, its root ts and its
\* channel never change, whatever the interleaving of the handlers.
C6_RootNeverChanges ==
    [][\A k \in StoreKeys :
          (order_threads[k] # 0 /\ order_threads'[k] # 0)
          => /\ MappingOf(k)'.ts = MappingOf(k).ts
             /\ MappingOf(k)'.channel = MappingOf(k).channel]_vars

\* the text announces order k: "ST.order #" and the digits of k, then no digit
IsOrderAnnouncement(text, k) ==
    /\ Len(text) >= 3 + Len(k)
    /\ SubSeq(text, 1, 3) = <<"ST.order", " ", "#">>
    /\ SubSeq(text, 4, 3 + Len(k)) = k
    /\ (Len(text) = 3 + Len(k) \/ ~IsDigit(text[4 + Len(k)]))

\* the messages of the fetched part of the history that announce order k
RootsInWindow(k) ==
    LET messages == History(channel, HistoryLimit)
    IN  {messages[i] : i \in {j \in 1..Len(messages) :
                                  /\ messages[j].thread_ts = 0
                                  /\ IsOrderAnnouncement(messages[j].text, k)}}

\* C7: an event for an order without a mapping and without a matching root
\* message in the channel is answered Deferred (202, neither the 200 of an
\* accepted nor the 400 of a rejected event), posts no reply and leaves the
\* store as it was; once a matching root message is in the channel, the
\* Locator of the next event finds it, the handler creates the mapping with
\* that root and sends a reply for every status the event carries.
C7_DeferredUntilRootPosted ==
    /\ [](\A p \in Procs :
            LET f == frame[p] IN
            (f.pc = "ret" /\ f.response = 202)
            => /\ f.sent = {} /\ ~f.updates_posted /\ f.mapping = 0
               /\ order_threads[f.clean_order_number] = 0)
    /\ [][\A p \in Procs :
            LET f == frame[p]
                g == frame'[p]
                k == f.clean_order_number
            IN  /\ (f.pc = "locate" /\ g.pc # "locate" /\ Active(p)')
                   => /\ order_threads' = order_threads /\ objects' = objects
                      /\ replies' = replies
                      /\ RootsInWindow(k) = {}
                             => (g.pc = "ret" /\ g.response = 202)
                      /\ (RootsInWindow(k) # {} /\ g.data_ok)
                             => /\ g.pc = "save_new"
                                /\ g.thread_ts \in {m.ts : m \in RootsInWindow(k)}
                /\ (f.pc = "save_new" /\ g.pc = "get_new")
                   => MappingOf(k)' =
                          [ts |-> f.thread_ts, channel |-> SHOPIFY_SLACK_CHANNEL_ID,
                           last_payment |-> NoStatus, last_fulfillment |-> NoStatus]
                /\ \A d \in Domains :
                       (f.pc = Pc("check", d) /\ g.pc # f.pc /\ Active(p)'
                          /\ f.thread_ts # 0
                          /\ StatusOf(f, d) \notin {NoStatus, "unknown"})
                       => g.pc = Pc("post", d)]_vars

\* an event of the order was deferred; after the root message was posted,
\* the next event has located it, created the mapping and posted one reply
C7_Witness ==
    \E p \in Procs :
        LET f == frame[p] IN
        /\ f.pc = "ret" /\ f.response = 200
        /\ f.thread_ts # 0
        /\ f.sent = {<<"payment", "paid">>}
        /\ MappingOf(f.clean_order_number).ts = f.thread_ts
        /\ LastValue(f.clean_order_number, "payment") = "paid"
        /\ [order |-> f.clean_order_number, domain |-> "payment",
            status |-> "paid", thread_ts |-> f.thread_ts] \in replies
        /\ \E r \in responses :
               clean_order_number(r.order_number) = f.clean_order_number /\ r.code = 202

\* C8: the handler of an event whose topic is fulfillments/create posts no
\* payment reply, whatever financial_status its payload carries.
C8_FulfillmentTopicPostsNoPayment ==
    \A p \in Procs :
        frame[p].webhook_topic = "fulfillments/create"
        => \A x \in frame[p].sent : x[1] # "payment"

\* C9: the handler of an event whose topic is orders/create never gets a
\* result from find_order_message_in_channel (a root ts, or the miss that
\* ends in 202) and never posts a status reply.
C9_OrderCreationSkipsLocatorAndReplies ==
    \A p \in Procs :
        frame[p].webhook_topic = "orders/create"
        => /\ frame[p].pc \notin {"save_new", "get_new"}
           /\ frame[p].response # 202
           /\ frame[p].thread_ts = 0
           /\ frame[p].sent = {}

\* the canonical form of an order number: its digits
DigitsOf(s) == SelectSeq(s, IsDigit)

\* C10: "12", "#12" and " 12 " are one key: the key a handler looks up,
\* inserts under and hands to the Locator is the digits of the order number
\* its event carried, the message the Locator returns announces that order,
\* and order_threads holds entries under canonical keys only, so never two
\* for one order.
C10_OneEntryPerOrder ==
    /\ \A p \in Procs :
          LET f == frame[p] IN
          (Active(p) /\ f.order_number # <<>>)
          => /\ f.clean_order_number = DigitsOf(f.order_number)
             /\ f.mapping # 0 => order_threads[DigitsOf(f.order_number)] # 0
             /\ f.thread_ts # 0
                    => IsOrderAnnouncement(channel[f.thread_ts].text,
                                           DigitsOf(f.order_number))
    /\ \A k \in StoreKeys : order_threads[k] # 0 => k = DigitsOf(k)
    /\ \A k \in StoreKeys :
          Cardinality({j \in StoreKeys :
                          order_threads[j] # 0 /\ DigitsOf(j) = DigitsOf(k)}) <= 1

\* an event that wrote the order " 12 " has found the mapping that an event
\* writing it "#12" created from the root message
C10_Witness ==
    \E p \in Procs :
        LET f == frame[p] IN
        /\ f.order_number = <<" ", "1", "2", " ">>
        /\ f.pc = Pc("check", "payment")
        /\ f.thread_ts = 0
        /\ f.mapping # 0 /\ f.mapping = order_threads[<<"1", "2">>]
        /\ [order_number |-> <<"#", "1", "2">>, code |-> 200] \in responses

\* C11: a failed send of the payment reply is followed by the fulfillment
\* comparison of the same event, a failed send of the fulfillment reply by
\* the 200 response; a handler is never stuck, and the response it delivers
\* is one of 200 (Accepted), 202 (Deferred) and 400 (Rejected).
C11_SendFailureNeverAborts ==
    /\ [](\A p \in Procs :
            /\ Active(p) => ENABLED Step(p)
            /\ frame[p].pc = "ret" => frame[p].response \in {200, 202, 400}
            /\ frame[p].pc # "ret" => frame[p].response = 0)
    /\ [][\A p \in Procs, d \in Domains :
            (frame[p].pc = Pc("post", d) /\ Active(p)'
               /\ frame'[p].pc \notin {Pc("post", d), Pc("set", d)})
            => IF d = "payment"
               THEN frame'[p].pc = Pc("check", "fulfillment")
               ELSE frame'[p].pc = "ret" /\ frame'[p].response = 200]_vars

\* the payment send of an event failed, and the fulfillment reply of the
\* same event was posted and recorded
C11_Witness ==
    \E p \in Procs :
        LET f == frame[p]
            k == f.clean_order_number
        IN  /\ f.pc = "ret" /\ f.response = 200
            /\ f.payment_status = "paid"
            /\ run[k]["payment"].attempts = 1 /\ run[k]["payment"].posted = 0
            /\ f.sent = {<<"fulfillment", "fulfilled">>}
            /\ LastValue(k, "payment") = NoStatus
            /\ LastValue(k, "fulfillment") = "fulfilled"

\* the payload names the order in none of 'name', 'order_number' and 'id'
NoIdentifier(order_data) ==
    order_data.name = <<>> /\ order_data.order_number = <<>> /\ order_data.id = <<>>

\* C12: an event whose payload has no order identifier is answered 400 at
\* once: its handler makes no lookup and no search of the channel, posts no
\* reply, and the step that receives it and the step that answers it leave
\* order_threads, the mapping dicts, the replies and the channel unchanged
\* (a restart of the process apart); no other event is answered 400.
C12_NoIdentifierRejected ==
    /\ [](\A p \in Procs :
            LET f == frame[p] IN
            Active(p)
            => /\ NoIdentifier(f.order_data)
                  => /\ f.pc = "ret" /\ f.response = 400
                     /\ f.mapping = 0 /\ f.thread_ts = 0 /\ ~f.data_ok
                     /\ f.sent = {} /\ ~f.updates_posted
               /\ f.response = 400 => NoIdentifier(f.order_data))
    /\ [][\A p \in Procs :
            /\ (~Active(p) /\ Active(p)' /\ NoIdentifier(frame[p].order_data)')
                   => UNCHANGED <<order_threads, objects, replies, channel>>
            /\ (NoIdentifier(frame[p].order_data) /\ Active(p) /\ ~Active(p)')
                   => \/ UNCHANGED <<order_threads, objects, replies, channel>>
                      \/ \* the process was restarted
                         /\ \A k \in StoreKeys : order_threads'[k] = 0
                         /\ UNCHANGED <<replies, channel, responses>>]_vars

\* an event without identifier was answered 400 while order_threads holds
\* the mapping an earlier event recorded
C12_Witness ==
    /\ [order_number |-> <<>>, code |-> 400] \in responses
    /\ \E k \in StoreKeys : LastValue(k, "payment") = "paid"
    /\ AllIdle
    /\ nEvents = MaxEvents

\* C19: the key of an event whose payload carries an 'order_number' is the
\* canonical form of that order number, whatever its 'name' is.
C19_KeyFromOrderNumberFirst ==
    \A p \in Procs :
        (Active(p) /\ frame[p].order_data.order_number # <<>>)
        => frame[p].clean_order_number = DigitsOf(frame[p].order_data.order_number)

\* the maximal runs of digits of a text
MaximalDigitRuns(text) ==
    {DigitRun(text, i) : i \in {j \in 1..Len(text) :
                                    /\ IsDigit(text[j])
                                    /\ (j = 1 \/ ~IsDigit(text[j - 1]))}}

\* C13: the message a handler accepts as the announcement of its order holds
\* the order number as a whole run of digits (never a number the order
\* number only begins, ends or is part of), and a message "ST.order #K ..."
\* outside a thread in the fetched history is accepted for K when the
\* history request succeeds.
C13_ExactNumberMatch ==
    /\ [](\A p \in Procs :
            frame[p].thread_ts # 0
            => frame[p].clean_order_number
                   \in MaximalDigitRuns(channel[frame[p].thread_ts].text))
    /\ [][\A p \in Procs :
            (frame[p].pc = "locate" /\ frame'[p].pc # "locate" /\ Active(p)'
               /\ frame'[p].data_ok
               /\ RootsInWindow(frame[p].clean_order_number) # {})
            => frame'[p].thread_ts # 0]_vars

\* the announcement of order 12 was accepted although the newer message of
\* the channel announces order 123
C13_Witness ==
    \E p \in Procs :
        /\ frame[p].thread_ts = 1
        /\ frame[p].clean_order_number = <<"1", "2">>
        /\ Len(channel) = 2
        /\ channel[1].text = <<"ST.order", " ", "#", "1", "2", " ", "|", " ", "w">>
        /\ channel[2].text = <<"ST.order", " ", "#", "1", "2", "3">>
        /\ channel[2].thread_ts = 0

\* the status terms that mark a text as a status update
Blacklist == {"fulfilled", "tracking", "report", "generated", "payment"}

\* C14: the message a handler accepts as the announcement of its order
\* contains no status term of the blacklist.
C14_StatusTextNeverRoot ==
    \A p \in Procs :
        frame[p].thread_ts # 0
        => \A i \in 1..Len(channel[frame[p].thread_ts].text) :
               channel[frame[p].thread_ts].text[i] \notin Blacklist

\* C15: when several messages of the fetched history outside threads match
\* the order, the handler gets the one posted first.
C15_EarliestMatchWins ==
    \A p \in Procs :
        frame[p].thread_ts # 0
        => \A m \in {channel[i] : i \in 1..Len(channel)} :
               (~IsThreadReply(m) /\ Matches(m, frame[p].clean_order_number)
                  /\ Len(channel) - m.ts < HistoryLimit)
               => frame[p].thread_ts <= m.ts

\* C16: the message a handler gets from the search of the channel, and the
\* root recorded in order_threads, is never a reply in a thread (a message
\* with a thread_ts other than its own ts), even when a reply that holds the
\* order number is in the fetched history.
C16_ReplyNeverRoot ==
    /\ \A p \in Procs :
          frame[p].thread_ts # 0
          => LET m == channel[frame[p].thread_ts]
             IN  m.thread_ts = 0 \/ m.thread_ts = m.ts
    /\ \A k \in StoreKeys :
          order_threads[k] # 0
          => LET m == channel[MappingOf(k).ts]
             IN  m.thread_ts = 0 \/ m.thread_ts = m.ts

\* the newest message is a reply that announces order 12; the handler has
\* recorded the older message, which is no reply, as the root
C16_Witness ==
    \E p \in Procs :
        /\ frame[p].pc = Pc("check", "payment")
        /\ frame[p].clean_order_number = <<"1", "2">>
        /\ frame[p].thread_ts = 1
        /\ MappingOf(<<"1", "2">>).ts = 1
        /\ Len(channel) = 2
        /\ channel[2].thread_ts = 1
        /\ channel[2].text = <<"ST.order", " ", "#", "1", "2", " ", "|", " ", "w">>

\* C17: when the history request fails (no token, a transport error, an
\* answer that is not ok) the handler of an unmapped order answers 202, not
\* an error; it posts nothing and leaves order_threads and the mapping dicts
\* as they were, so that the lookup of a later event for the order misses
\* again and searches the channel again.
C17_FetchFailureIsDeferred ==
    /\ [](\A p \in Procs :
            (frame[p].pc = "ret" /\ frame[p].response = 202)
            => frame[p].sent = {} /\ order_threads[frame[p].clean_order_number] = 0)
    /\ [][\A p \in Procs :
            LET f == frame[p]
                g == frame'[p]
            IN  /\ (f.pc = "locate" /\ g.pc # "locate" /\ Active(p)' /\ ~g.data_ok)
                   => /\ g.pc = "ret" /\ g.response = 202
                      /\ UNCHANGED <<order_threads, objects, replies>>
                /\ (f.pc = "lookup" /\ g.pc # "lookup" /\ Active(p)'
                       /\ order_threads[f.clean_order_number] = 0)
                   => g.pc = "locate"]_vars

\* the token is set and the announcement of the order is in the fetched
\* history, but the request failed and the event is answered 202
C17_Witness ==
    \E p \in Procs :
        /\ token
        /\ frame[p].pc = "ret" /\ frame[p].response = 202
        /\ ~frame[p].data_ok
        /\ RootsInWindow(frame[p].clean_order_number) # {}

\* C18: save_order_mapping called without status values (line 271) for a
\* key that has a mapping keeps the last values that mapping records.
C18_SaveKeepsUnprovidedFields ==
    [][\A p \in Procs, d \in Domains :
          LET k == frame[p].clean_order_number IN
          (frame[p].pc = "save_new" /\ frame'[p].pc = "get_new"
             /\ order_threads[k] # 0)
          => LastValue(k, d)' = LastValue(k, d)]_vars

\* C20: the replies for an order all go to one thread: after a restart has
\* emptied order_threads, the search of the next event finds the root
\* message the replies went to before, as long as it is in the channel.
C20_RestartRediscoversSameRoot ==
    \A r1, r2 \in replies :
        (r1.order = r2.order /\ r1.thread_ts # r2.thread_ts)
        => \E q \in {r1, r2} : \A i \in 1..Len(channel) : channel[i].ts # q.thread_ts

\* C21: whatever the interleaving of the handlers of an order, a value
\* recorded in order_threads for (order, domain) is the status of the last
\* reply Slack accepted for that order and domain, as soon as no handler is
\* between its accepted post and the end of its save for that domain.
C21_RecordedIsLastReply ==
    \A k \in StoreKeys, d \in Domains :
        (/\ LastValue(k, d) # NoStatus
         /\ \A p \in Procs :
                Recording(p, d) => frame[p].clean_order_number # k)
        => LastValue(k, d) = run[k][d].last

====
